---- MODULE Spec2Model ----
(***************************************************************************)
(* The read-filtering pipeline of extract_reads_from_path_GFA.py:          *)
(* process_read classifies one line of `vg view -a` output against the    *)
(* node index, filter_reads collects the results of a multiprocessing     *)
(* pool, saves them in numbered batch files and a final batch file, and   *)
(* merge_json_files merges the batch files into the output file.          *)
(* Beside it: the queue-based process_gam_file of                          *)
(* findReads_SegmentID_new.py, the thread-based filter_reads of            *)
(* extract_reads_from_path.py, and the two process_read functions called   *)
(* side by side.                                                           *)
(***************************************************************************)
EXTENDS Integers, Sequences, FiniteSets, TLC

VARIABLES
    nodes_file,      \* the "nodes" object of the nodes JSON file: (id, metadata) pairs, in file order
    stream,          \* the lines `vg view -a` writes to its stdout, in order
    threads,         \* filter_reads' threads argument (Pool(processes=threads))
    B,               \* the flush threshold (5000000 in the source, scaled down)
    source_exit,     \* exit code of the vg process (0 until its stdout is closed)
    fed,             \* number of lines the pool's task feeder has read
    tasks,           \* line numbers submitted to the pool, not yet taken by a worker
    running,         \* line numbers a worker process is classifying
    results,         \* filter_reads' results list
    processed_count, \* filter_reads' processed_count
    batch_index,     \* filter_reads' batch_index
    tmp_dir,         \* ./tmp/{output_json}_batch_<name> : <name> -> document
    out_file,        \* the document at {output_json}
    batch_files,     \* merge_json_files' sorted list of batch files
    pc,              \* "start", "loop", "merge", "done" or "failed"
    error,           \* the exception (or SIGKILL) that ended the run, or "none"
    run,             \* number of the run of filter_reads in progress
    merges,          \* number of calls of merge_json_files made
    write_failures,  \* history: write attempts of this run that raised OSError
    results_src,     \* history: the line number behind each entry of results
    file_src,        \* history: per batch file written by this run, the line numbers saved
    received,        \* history: line numbers of the truthy results, as received
    emitted,         \* history: the batch files this run wrote, in order
    \* process_gam_file of findReads_SegmentID_new.py
    gam_lines,       \* the lines `vg view -a` writes to its stdout, in order
    num_threads,     \* process_gam_file's num_threads argument
    lines_read,      \* number of lines the loop of line 86 has consumed
    read_queue,      \* read_queue: line numbers of the reads put and not yet got
    unfinished_tasks, \* read_queue's count of items put and not yet marked done
    workers,         \* per worker thread: its position in process_gam_worker and its read
    aligned_reads,   \* json_data[region]["aligned_reads"], per region
    reads_counted,   \* processed_count[0]
    gam_pc,          \* the main thread: "reading", "queue_join", "thread_join", "returned"
    taken,           \* history: the line number behind every read_queue.get
    classified,      \* history: the line number of every read whose classification completed
    append_src,      \* history: the line number behind every append to an aligned_reads list
    \* filter_reads of extract_reads_from_path.py
    pool_lines,      \* the lines `vg view -a` writes to its stdout, in order
    max_workers,     \* ThreadPoolExecutor(max_workers=threads)
    save_every,      \* results between two periodic saves (5000 in the source, scaled down)
    submitted,       \* number of lines executor.map has submitted
    next_task,       \* the next submitted call a free thread will start
    futures,         \* per submitted call: "pending", "done" or "KeyError"
    pool_workers,    \* per executor thread: its position in process_read, its line, the nodes left to store
    node_read_map,   \* the shared node_read_map
    lock,            \* holder of the lock: 0 free, -1 the main thread, w worker w
    pool_count,      \* filter_reads' processed_count
    pool_pc,         \* the main thread: "submit", "iterate", "wait_lock", "saving", "done", "failed"
    snapshots,       \* history: node_read_map as each save_json wrote it
    \* the two process_read functions called side by side
    cmp_line,        \* the line given to both
    cmp_index,       \* the node ids of the index given to both
    dict_result,     \* what process_read of extract_reads_from_path_GFA.py returned
    set_result       \* node_read_map after process_read of extract_reads_from_path.py

vars == <<nodes_file, write_failures, stream, threads, B, source_exit, fed, tasks, running, results,
          processed_count, batch_index, tmp_dir, out_file, batch_files, pc,
          error, run, merges, results_src, file_src, received, emitted,
          gam_lines, num_threads, lines_read, read_queue, unfinished_tasks,
          workers, aligned_reads, reads_counted, gam_pc, taken, classified,
          append_src, pool_lines, max_workers, save_every, submitted,
          next_task, futures, pool_workers, node_read_map, lock, pool_count,
          pool_pc, snapshots, cmp_line, cmp_index, dict_result, set_result>>

\* The variables of filter_reads (extract_reads_from_path_GFA.py)
filter_vars == <<nodes_file, write_failures, stream, threads, B, source_exit, fed, tasks,
                 running, results, processed_count, batch_index, tmp_dir,
                 out_file, batch_files, pc, error, run, merges, results_src,
                 file_src, received, emitted>>

\* The variables of process_gam_file (findReads_SegmentID_new.py)
gam_vars == <<gam_lines, num_threads, lines_read, read_queue, unfinished_tasks,
              workers, aligned_reads, reads_counted, gam_pc, taken, classified,
              append_src>>

---------------------------------------------------------------------------
(* Bounds of the model *)

MaxLines == 3        \* longest stream of mixed lines
MaxLongLines == 10   \* longest stream of one repeated line
MaxB == 3            \* largest flush threshold
MaxRuns == 2         \* runs of filter_reads sharing one output name
MaxMerges == 2       \* calls of merge_json_files over one directory
MaxRunLines == 2     \* longest stream of a run that follows another
MaxBatches == 2      \* numbered batch files in a directory given to the merge
MaxNodeEntries == 2  \* entries of the "nodes" object of a nodes file

---------------------------------------------------------------------------
(* JSON documents: a list, a dict, or no file *)

EmptyDict == [n \in {} |-> n]

JsonList(items) == [kind |-> "list", items |-> items, map |-> EmptyDict]

JsonDict(map) == [kind |-> "dict", items |-> <<>>, map |-> map]

Absent == [kind |-> "absent", items |-> <<>>, map |-> EmptyDict]

---------------------------------------------------------------------------
(* The node index and the lines of the alignment stream *)

Metadata(sequence) ==
    [strand |-> ">", sequence |-> sequence, length |-> Len(sequence),
     start_offset |-> 0]

\* The nodes file of the runs: n1 and n2, each once.
NodesFile == <<<<"n1", Metadata(<<"A", "C">>)>>, <<"n2", Metadata(<<"A", "C">>)>>>>

RECURSIVE LoadPairs(_, _)
\* json.load of an object: a key that occurs again replaces the earlier value.
LoadPairs(pairs, loaded) ==
    IF pairs = <<>> THEN loaded
    ELSE LET id == Head(pairs)[1]
         IN LoadPairs(Tail(pairs),
                      [n \in DOMAIN loaded \cup {id} |->
                          IF n = id THEN Head(pairs)[2] ELSE loaded[n]])

\* load_nodes(nodes_json): data["nodes"], as json.load built it; no entry is
\* checked and no error is raised for an empty or repeated id.
load_nodes(nodes_json) == LoadPairs(nodes_json, EmptyDict)

node_info == load_nodes(NodesFile)

\* One line of the stream: valid = json.loads succeeds; has_name = the
\* object carries the key "name"; mapping = the node ids of path.mapping.
Line(valid, has_name, name, mapping) ==
    [valid |-> valid, has_name |-> has_name, name |-> name,
     sequence |-> "ACGT", mapping_quality |-> 60, score |-> 4,
     quality |-> "IIII", mapping |-> mapping]

LineA == Line(TRUE, TRUE, "A", <<"n1", "n1", "n2">>)
LineB == Line(TRUE, TRUE, "B", <<"n1">>)
LineC == Line(TRUE, TRUE, "C", <<"n9">>)
LineX == Line(FALSE, FALSE, "", <<>>)
LineK == Line(TRUE, FALSE, "", <<"n1">>)

Lines == {LineA, LineB, LineC, LineX, LineK}

RECURSIVE SeqsUpTo(_, _)
SeqsUpTo(S, n) ==
    IF n = 0 THEN {<<>>}
    ELSE LET shorter == SeqsUpTo(S, n - 1)
         IN shorter \cup {Append(s, x) : s \in shorter, x \in S}

Streams == SeqsUpTo(Lines, MaxLines)

LongStreams == {[i \in 1..n |-> l] : n \in 0..MaxLongLines, l \in Lines}

---------------------------------------------------------------------------
(* process_read *)

read_info(read) ==
    [read_name |-> read.name, sequence |-> read.sequence,
     mapping_quality |-> read.mapping_quality, score |-> read.score,
     quality |-> read.quality, path |-> read.mapping]

NewNode(index, node_id) ==
    [strand |-> index[node_id].strand, sequence |-> index[node_id].sequence,
     length |-> index[node_id].length,
     start_offset |-> index[node_id].start_offset, reads |-> <<>>]

\* A classification without the test of line 110: a node absent from the
\* index is grouped too, with empty metadata.
AddMappingAny(mapped_nodes, node_id, info, index) ==
    [n \in DOMAIN mapped_nodes \cup {node_id} |->
        IF n = node_id
        THEN LET node == IF node_id \in DOMAIN mapped_nodes
                         THEN mapped_nodes[node_id]
                         ELSE IF node_id \in DOMAIN index
                         THEN NewNode(index, node_id)
                         ELSE [strand |-> "", sequence |-> <<>>, length |-> 0,
                               start_offset |-> 0, reads |-> <<>>]
             IN [node EXCEPT !.reads = Append(@, info)]
        ELSE mapped_nodes[n]]

\* lines 110-119: the node is created on its first mapping, and the read is
\* appended on every mapping to a node of the index.
AddMapping(mapped_nodes, node_id, info, index) ==
    IF node_id \in DOMAIN index
    THEN [n \in DOMAIN mapped_nodes \cup {node_id} |->
            IF n = node_id
            THEN LET node == IF node_id \in DOMAIN mapped_nodes
                             THEN mapped_nodes[node_id]
                             ELSE NewNode(index, node_id)
                 IN [node EXCEPT !.reads = Append(@, info)]
            ELSE mapped_nodes[n]]
    ELSE mapped_nodes

RECURSIVE ScanMappings(_, _, _, _)
ScanMappings(mapping, info, mapped_nodes, index) ==
    IF mapping = <<>> THEN mapped_nodes
    ELSE ScanMappings(Tail(mapping), info,
                      AddMapping(mapped_nodes, Head(mapping), info, index), index)

\* A classifier that remembers the nodes of the results collected so far
\* and leaves them out of later results.
process_read_stateful(line, index) ==
    LET seen == UNION {DOMAIN results[k] : k \in 1..Len(results)}
        rest == [n \in DOMAIN index \ seen |-> index[n]]
    IN IF ~line.valid THEN [status |-> "none", mapped |-> EmptyDict]
       ELSE IF ~line.has_name THEN [status |-> "KeyError", mapped |-> EmptyDict]
       ELSE [status |-> "ok",
             mapped |-> ScanMappings(line.mapping, read_info(line), EmptyDict, rest)]

\* The outcome of process_read(line, node_info): the dict it returns
\* ("ok"), None for a JSONDecodeError ("none"), or the KeyError raised by
\* read["name"] on an object without that key.
process_read(line, index) ==
    IF ~line.valid THEN [status |-> "none", mapped |-> EmptyDict]
    ELSE IF ~line.has_name THEN [status |-> "KeyError", mapped |-> EmptyDict]
    ELSE [status |-> "ok",
          mapped |-> ScanMappings(line.mapping, read_info(line), EmptyDict, index)]

\* Python truth value of process_read's return value: None and {} are false.
Truthy(r) == r.status = "ok" /\ DOMAIN r.mapped # {}

---------------------------------------------------------------------------
(* File names.  A file ./tmp/{output_json}_batch_<name> is kept under       *)
(* <name>, a string of character codes: "1.json", "final.json",            *)
(* "1.json.tmp".                                                           *)

RECURSIVE Str(_)
\* str(n) for n >= 0, as character codes ('0' is 48)
Str(n) == IF n < 10 THEN <<48 + n>> ELSE Str(n \div 10) \o <<48 + (n % 10)>>

\* ".json"
JsonExt == <<46, 106, 115, 111, 110>>

\* A batch name that ignores batch_index: every flush writes the same file.
BatchFileFixed(index) == Str(1) \o JsonExt

\* line 154: f"./tmp/{output_json}_batch_{batch_index}.json"
BatchFile(index) == Str(index) \o JsonExt

\* A final batch saved under the first numbered batch's name.
FinalFileNumbered == BatchFile(1)

\* line 162: f"./tmp/{output_json}_batch_final.json"
FinalFile == <<102, 105, 110, 97, 108>> \o JsonExt

\* A save that writes the file in place, with no temporary file.
TempFileInPlace(output_file) == output_file

\* line 173: temp_file = output_file + ".tmp"
TempFile(output_file) == output_file \o <<46, 116, 109, 112>>

\* line 186: the files of tmp that match {output_file}_batch_*.json
Glob(dir) ==
    {f \in DOMAIN dir :
        /\ Len(f) >= Len(JsonExt)
        /\ SubSeq(f, Len(f) - Len(JsonExt) + 1, Len(f)) = JsonExt}

\* Python's str comparison: by code point, a proper prefix first
StrLess(a, b) ==
    \E k \in 1..(Len(a) + 1) :
        /\ \A j \in 1..(k - 1) : j <= Len(b) /\ a[j] = b[j]
        /\ k <= Len(b)
        /\ (k = Len(a) + 1 \/ a[k] < b[k])

\* The paths differ only in <name>, so they compare as the names do.
PathLess(f, g) == StrLess(f, g)

RECURSIVE Sorted(_)
\* sorted(glob.glob(...)) of line 186 over the set of names S
Sorted(S) ==
    IF S = {} THEN <<>>
    ELSE LET least == CHOOSE f \in S : \A g \in S \ {f} : PathLess(f, g)
         IN <<least>> \o Sorted(S \ {least})

---------------------------------------------------------------------------
(* save_json and merge_json_files *)

\* A file opened with "w" whose json.dump has not completed.
Partial == [kind |-> "partial", items |-> <<>>, map |-> EmptyDict]

WriteFile(dir, name, doc) ==
    [f \in DOMAIN dir \cup {name} |-> IF f = name THEN doc ELSE dir[f]]

\* os.replace(src, dst)
Replace(dir, src, dst) ==
    [f \in (DOMAIN dir \ {src}) \cup {dst} |-> IF f = dst THEN dir[src] ELSE dir[f]]

\* A save that writes the temporary file and never renames it.
save_json_unrenamed(dir, data, name) ==
    WriteFile(dir, TempFile(name), JsonList(data))

\* save_json(data, output_file) for a batch file: json.dump of the results
\* list into the temporary file, then os.replace into place.
save_json(dir, data, name) ==
    Replace(WriteFile(dir, TempFile(name), JsonList(data)), TempFile(name), name)

\* What save_json leaves in tmp when it stops before os.replace has
\* completed: nothing new, the temporary file partly written, or the
\* temporary file complete.
InterruptedSave(dir, data, name) ==
    {dir, WriteFile(dir, TempFile(name), Partial),
          WriteFile(dir, TempFile(name), JsonList(data))}

\* lines 192-196 for one (node_id, node_data) pair of a batch
MergeNode(merged_data, node_id, node_data) ==
    [n \in DOMAIN merged_data \cup {node_id} |->
        IF n # node_id THEN merged_data[n]
        ELSE IF node_id \notin DOMAIN merged_data THEN node_data
        ELSE [merged_data[n] EXCEPT !.reads = @ \o node_data.reads]]

RECURSIVE MergeItems(_, _, _)
\* the loop of line 192 over the keys of one batch
MergeItems(merged_data, batch_map, keys) ==
    IF keys = {} THEN merged_data
    ELSE LET node_id == CHOOSE n \in keys : TRUE
         IN MergeItems(MergeNode(merged_data, node_id, batch_map[node_id]),
                       batch_map, keys \ {node_id})

RECURSIVE MergeBatches(_, _, _)
\* the loop of lines 188-196: json.load raises JSONDecodeError on a partly
\* written file, and batch_data.items() raises AttributeError when the
\* document json.load returns is a list.
MergeBatches(dir, files, merged_data) ==
    IF files = <<>> THEN [error |-> "none", data |-> merged_data]
    ELSE LET batch_data == dir[Head(files)]
         IN IF batch_data.kind = "partial"
            THEN [error |-> "JSONDecodeError", data |-> merged_data]
            ELSE IF batch_data.kind # "dict"
            THEN [error |-> "AttributeError", data |-> merged_data]
            ELSE MergeBatches(dir, Tail(files),
                              MergeItems(merged_data, batch_data.map,
                                         DOMAIN batch_data.map))

\* A merge that starts from the previous output file instead of an empty dict.
merge_json_files_accumulating(dir, output) ==
    LET start == IF output.kind = "dict" THEN output.map ELSE EmptyDict
        merged == MergeBatches(dir, Sorted(Glob(dir)), start)
    IN [dir |-> dir,
        batch_files |-> Sorted(Glob(dir)),
        error |-> merged.error,
        output |-> IF merged.error = "none" THEN JsonDict(merged.data) ELSE output]

\* merge_json_files("tmp", output_file): the files left in tmp, the output
\* file and the exception raised, from the files found in tmp and the
\* previous output file.
merge_json_files(dir, output) ==
    LET merged == MergeBatches(dir, Sorted(Glob(dir)), EmptyDict)
    IN [dir |-> dir,
        batch_files |-> Sorted(Glob(dir)),
        error |-> merged.error,
        output |-> IF merged.error = "none" THEN JsonDict(merged.data) ELSE output]

---------------------------------------------------------------------------
(* filter_reads *)

WorkerCounts == {1, 2, 8}

ExitCodes == {0, 1}

\* The variables of filter_reads (extract_reads_from_path.py)
pool_vars == <<pool_lines, max_workers, save_every, submitted, next_task, futures,
               pool_workers, node_read_map, lock, pool_count, pool_pc, snapshots>>

\* The variables of the side-by-side calls of the two process_read functions
cmp_vars == <<cmp_line, cmp_index, dict_result, set_result>>

\* process_gam_file is not running.
GamIdle ==
    /\ gam_lines = <<>>
    /\ num_threads = 0
    /\ lines_read = 0
    /\ read_queue = <<>>
    /\ unfinished_tasks = 0
    /\ workers = <<>>
    /\ aligned_reads = EmptyDict
    /\ reads_counted = 0
    /\ gam_pc = "returned"
    /\ taken = <<>>
    /\ classified = <<>>
    /\ append_src = <<>>

\* An executor thread with no call to run.
IdleWorker == [pc |-> "idle", line |-> 0, todo |-> {}]

\* The thread-based filter_reads is not running.
PoolIdle ==
    /\ pool_lines = <<>>
    /\ max_workers = 0
    /\ save_every = 1
    /\ submitted = 0
    /\ next_task = 1
    /\ futures = <<>>
    /\ pool_workers = <<>>
    /\ node_read_map = EmptyDict
    /\ lock = 0
    /\ pool_count = 0
    /\ pool_pc = "done"
    /\ snapshots = <<>>

\* No side-by-side call has been set up.
CmpIdle ==
    /\ cmp_line = LineX
    /\ cmp_index = {}
    /\ dict_result = [status |-> "idle", mapped |-> EmptyDict]
    /\ set_result = [status |-> "idle", map |-> EmptyDict]

\* No other program of the repository is running.
OthersIdle == GamIdle /\ PoolIdle /\ CmpIdle

\* The state of one call of filter_reads before its loop: lines 139-141,
\* the pool idle, nothing read from the vg process.
StartRun(s, t, b) ==
    /\ stream = s
    /\ threads = t
    /\ B = b
    /\ source_exit = 0
    /\ fed = 0
    /\ tasks = <<>>
    /\ running = {}
    /\ results = <<>>
    /\ processed_count = 0
    /\ batch_index = 1
    /\ batch_files = <<>>
    /\ pc = "loop"
    /\ error = "none"
    /\ write_failures = 0
    /\ results_src = <<>>
    /\ file_src = EmptyDict
    /\ received = <<>>
    /\ emitted = <<>>

Init ==
    /\ \E s \in Streams, t \in WorkerCounts, b \in 1..MaxB : StartRun(s, t, b)
    /\ nodes_file = NodesFile
    /\ tmp_dir = EmptyDict
    /\ out_file = Absent
    /\ run = 1
    /\ merges = 0
    /\ OthersIdle

\* line 146: the pool's task feeder reads the next line of the vg process
\* and submits it as a task.
Feed ==
    /\ pc = "loop"
    /\ fed < Len(stream)
    /\ fed' = fed + 1
    /\ tasks' = Append(tasks, fed + 1)
    /\ UNCHANGED <<gam_vars, pool_vars, cmp_vars, nodes_file, write_failures, stream, threads, B, source_exit, running, results,
                   processed_count, batch_index, tmp_dir, out_file,
                   batch_files, pc, error, run, merges, results_src,
                   file_src, received, emitted>>

\* A free worker process of the pool takes the oldest task.
Take ==
    /\ pc = "loop"
    /\ tasks # <<>>
    /\ Cardinality(running) < threads
    /\ running' = running \cup {Head(tasks)}
    /\ tasks' = Tail(tasks)
    /\ UNCHANGED <<gam_vars, pool_vars, cmp_vars, nodes_file, write_failures, stream, threads, B, source_exit, fed, results,
                   processed_count, batch_index, tmp_dir, out_file,
                   batch_files, pc, error, run, merges, results_src,
                   file_src, received, emitted>>

\* A flush condition that holds at the first crossing only.
FlushDueOnce(count, threshold) == count = threshold

\* line 153: the flush condition after a result has been counted
FlushDue(count, threshold) == count % threshold = 0

\* lines 144-158: imap_unordered yields the result of line i, whichever
\* worker finishes first, and the loop body runs on it.
Deliver(i) ==
    LET mapped_nodes == process_read(stream[i], load_nodes(nodes_file))
        kept == Truthy(mapped_nodes)
        appended == IF kept THEN Append(results, mapped_nodes.mapped) ELSE results
        appended_src == IF kept THEN Append(results_src, i) ELSE results_src
        count == IF kept THEN processed_count + 1 ELSE processed_count
        batch_file == BatchFile(batch_index)
    IN /\ pc = "loop"
       /\ i \in running
       /\ mapped_nodes.status # "KeyError"
       /\ running' = running \ {i}
       /\ processed_count' = count
       /\ received' = IF kept THEN Append(received, i) ELSE received
       /\ IF FlushDue(count, B)
          THEN /\ tmp_dir' = save_json(tmp_dir, appended, batch_file)
               /\ file_src' = [f \in DOMAIN file_src \cup {batch_file} |->
                                 IF f = batch_file THEN appended_src ELSE file_src[f]]
               /\ emitted' = Append(emitted, batch_file)
               /\ results' = <<>>
               /\ results_src' = <<>>
               /\ batch_index' = batch_index + 1
          ELSE /\ results' = appended
               /\ results_src' = appended_src
               /\ UNCHANGED <<tmp_dir, file_src, emitted, batch_index>>
       /\ UNCHANGED <<gam_vars, pool_vars, cmp_vars, nodes_file, write_failures, stream, threads, B, source_exit, fed, tasks, out_file,
                      batch_files, pc, error, run, merges>>

\* What stops a write before it completes: an OSError raised by open,
\* json.dump or os.replace (none is caught or retried), or the end of the
\* process.
StopCauses == {"OSError", "SIGKILL"}

\* lines 144-155: the loop body on the result of line i, where the flush is
\* due and save_json stops before os.replace has completed.
FlushStops(i) ==
    LET mapped_nodes == process_read(stream[i], load_nodes(nodes_file))
        kept == Truthy(mapped_nodes)
        appended == IF kept THEN Append(results, mapped_nodes.mapped) ELSE results
        appended_src == IF kept THEN Append(results_src, i) ELSE results_src
        count == IF kept THEN processed_count + 1 ELSE processed_count
    IN /\ pc = "loop"
       /\ i \in running
       /\ mapped_nodes.status # "KeyError"
       /\ FlushDue(count, B)
       /\ \E cause \in StopCauses,
             dir \in InterruptedSave(tmp_dir, appended, BatchFile(batch_index)) :
             /\ tmp_dir' = dir
             /\ error' = cause
             /\ write_failures' = write_failures + (IF cause = "OSError" THEN 1 ELSE 0)
       /\ pc' = "failed"
       /\ running' = {}
       /\ tasks' = <<>>
       /\ processed_count' = count
       /\ received' = IF kept THEN Append(received, i) ELSE received
       /\ results' = appended
       /\ results_src' = appended_src
       /\ UNCHANGED <<gam_vars, pool_vars, cmp_vars, nodes_file, stream, threads, B, source_exit, fed,
                      batch_index, out_file, batch_files, run, merges,
                      file_src, emitted>>

\* line 144: the iterator re-raises the KeyError process_read raised in a
\* worker; filter_reads does not catch it and the pool is terminated.
Raise(i) ==
    /\ pc = "loop"
    /\ i \in running
    /\ process_read(stream[i], load_nodes(nodes_file)).status = "KeyError"
    /\ pc' = "failed"
    /\ error' = "KeyError"
    /\ running' = {}
    /\ tasks' = <<>>
    /\ UNCHANGED <<gam_vars, pool_vars, cmp_vars, nodes_file, write_failures, stream, threads, B, source_exit, fed, results, processed_count,
                   batch_index, tmp_dir, out_file, batch_files, run, merges,
                   results_src, file_src, received, emitted>>

\* lines 160-164: the stream is closed and every result has been consumed;
\* the remaining results are saved as the final batch.  The exit code of the
\* vg process is never read.
FinalSave ==
    /\ pc = "loop"
    /\ fed = Len(stream)
    /\ tasks = <<>>
    /\ running = {}
    /\ \E code \in ExitCodes : source_exit' = code
    /\ IF results # <<>>
       THEN /\ tmp_dir' = save_json(tmp_dir, results, FinalFile)
            /\ file_src' = [f \in DOMAIN file_src \cup {FinalFile} |->
                              IF f = FinalFile THEN results_src ELSE file_src[f]]
            /\ emitted' = Append(emitted, FinalFile)
       ELSE UNCHANGED <<tmp_dir, file_src, emitted>>
    /\ pc' = "merge"
    /\ UNCHANGED <<gam_vars, pool_vars, cmp_vars, nodes_file, write_failures, stream, threads, B, fed, tasks, running, results,
                   processed_count, batch_index, out_file, batch_files, error,
                   run, merges, results_src, received>>

\* lines 160-163: the final save_json stops before os.replace has completed.
FinalSaveStops ==
    /\ pc = "loop"
    /\ fed = Len(stream)
    /\ tasks = <<>>
    /\ running = {}
    /\ results # <<>>
    /\ \E code \in ExitCodes : source_exit' = code
    /\ \E cause \in StopCauses, dir \in InterruptedSave(tmp_dir, results, FinalFile) :
          /\ tmp_dir' = dir
          /\ error' = cause
          /\ write_failures' = write_failures + (IF cause = "OSError" THEN 1 ELSE 0)
    /\ pc' = "failed"
    /\ UNCHANGED <<gam_vars, pool_vars, cmp_vars, nodes_file, stream, threads, B, fed, tasks, running, results,
                   processed_count, batch_index, out_file, batch_files, run,
                   merges, results_src, file_src, received, emitted>>

\* lines 198-199 of a call from line 167: every batch has been merged and
\* the write of the output file stops: open(output_file, 'w') raises, or
\* the file has been truncated and json.dump does not complete.
MergeWriteStops ==
    LET merged == merge_json_files(tmp_dir, out_file)
    IN /\ pc = "merge"
       /\ merged.error = "none"
       /\ \E cause \in StopCauses, output \in {out_file, Partial} :
             /\ out_file' = output
             /\ error' = cause
             /\ write_failures' = write_failures + (IF cause = "OSError" THEN 1 ELSE 0)
       /\ batch_files' = merged.batch_files
       /\ pc' = "failed"
       /\ merges' = merges + 1
       /\ UNCHANGED <<gam_vars, pool_vars, cmp_vars, nodes_file, stream, threads, B, source_exit, fed, tasks,
                      running, results, processed_count, batch_index, tmp_dir,
                      run, results_src, file_src, received, emitted>>

\* One call of merge_json_files("tmp", output_json)
MergeCall ==
    LET merged == merge_json_files(tmp_dir, out_file)
    IN /\ tmp_dir' = merged.dir
       /\ out_file' = merged.output
       /\ batch_files' = merged.batch_files
       /\ error' = merged.error
       /\ pc' = IF merged.error = "none" THEN "done" ELSE "failed"
       /\ merges' = merges + 1
       /\ UNCHANGED <<gam_vars, pool_vars, cmp_vars, nodes_file, write_failures, stream, threads, B, source_exit, fed, tasks, running,
                      results, processed_count, batch_index, run, results_src,
                      file_src, received, emitted>>

\* line 167
Merge == pc = "merge" /\ MergeCall

Next ==
    \/ Feed
    \/ Take
    \/ \E i \in running : Deliver(i)
    \/ \E i \in running : Raise(i)
    \/ FinalSave
    \/ Merge
    \/ \E i \in running : FlushStops(i)
    \/ FinalSaveStops
    \/ MergeWriteStops

Spec == Init /\ [][Next]_vars

---------------------------------------------------------------------------
(* Long streams of one repeated line, classified by a single worker *)

InitLong ==
    /\ \E s \in LongStreams, b \in 1..MaxB : StartRun(s, 1, b)
    /\ nodes_file = NodesFile
    /\ tmp_dir = EmptyDict
    /\ out_file = Absent
    /\ run = 1
    /\ merges = 0
    /\ OthersIdle

SpecLong == InitLong /\ [][Next]_vars

---------------------------------------------------------------------------
(* Several runs of filter_reads with the same output name, one after the   *)
(* other: ./tmp and the output file are what the previous run left.        *)

RunStreams == SeqsUpTo(Lines, MaxRunLines)

InitRuns ==
    /\ \E s \in RunStreams, b \in 1..MaxB : StartRun(s, 1, b)
    /\ nodes_file = NodesFile
    /\ tmp_dir = EmptyDict
    /\ out_file = Absent
    /\ run = 1
    /\ merges = 0
    /\ OthersIdle

\* main() is started again after the previous process has ended.
NewRun ==
    /\ pc \in {"done", "failed"}
    /\ run < MaxRuns
    /\ \E s \in RunStreams, b \in 1..MaxB :
        /\ stream' = s
        /\ threads' = 1
        /\ B' = b
    /\ source_exit' = 0
    /\ fed' = 0
    /\ tasks' = <<>>
    /\ running' = {}
    /\ results' = <<>>
    /\ processed_count' = 0
    /\ batch_index' = 1
    /\ batch_files' = <<>>
    /\ pc' = "loop"
    /\ error' = "none"
    /\ results_src' = <<>>
    /\ file_src' = EmptyDict
    /\ received' = <<>>
    /\ emitted' = <<>>
    /\ run' = run + 1
    /\ write_failures' = 0
    /\ UNCHANGED <<gam_vars, pool_vars, cmp_vars, nodes_file, tmp_dir, out_file, merges>>

NextRuns == Next \/ NewRun

SpecRuns == InitRuns /\ [][NextRuns]_vars

---------------------------------------------------------------------------
(* merge_json_files alone, called repeatedly over a directory of batch     *)
(* files.  The documents in the directory are its input: lists, as         *)
(* filter_reads saves them, or dicts keyed by node id.                     *)

CheckpointNames == {BatchFile(i) : i \in 1..MaxBatches} \cup {FinalFile}

NodeMaps == {process_read(l, node_info).mapped : l \in {LineA, LineB, LineC}}

Documents == {JsonList(<<m>>) : m \in NodeMaps} \cup {JsonDict(m) : m \in NodeMaps}

CheckpointDirs == UNION {[S -> Documents] : S \in SUBSET CheckpointNames}

InitMerge ==
    /\ StartRun(<<>>, 1, 1)
    /\ nodes_file = NodesFile
    /\ tmp_dir \in CheckpointDirs
    /\ out_file \in {Absent, JsonDict(process_read(LineB, node_info).mapped)}
    /\ run = 1
    /\ merges = 0
    /\ OthersIdle

\* merge_json_files is called again over the same directory.
MergeAgain ==
    /\ pc \in {"done", "failed"}
    /\ merges < MaxMerges
    /\ MergeCall

NextMerge == FinalSave \/ Merge \/ MergeAgain

SpecMerge == InitMerge /\ [][NextMerge]_vars

---------------------------------------------------------------------------
(* filter_reads from its first line, over nodes files of every shape: an   *)
(* empty "nodes" object, ids that occur twice with the same or with        *)
(* different metadata.                                                     *)

NodeEntries ==
    {<<id, m>> : id \in {"n1", "n2"}, m \in {Metadata(<<"A", "C">>), Metadata(<<"G">>)}}

NodesFiles == SeqsUpTo(NodeEntries, MaxNodeEntries)

InitIndex ==
    /\ nodes_file \in NodesFiles
    /\ stream \in SeqsUpTo({LineB, LineK}, 1)
    /\ threads = 1
    /\ B \in 1..2
    /\ source_exit = 0
    /\ fed = 0
    /\ tasks = <<>>
    /\ running = {}
    /\ results = <<>>
    /\ processed_count = 0
    /\ batch_index = 1
    /\ batch_files = <<>>
    /\ pc = "start"
    /\ error = "none"
    /\ write_failures = 0
    /\ results_src = <<>>
    /\ file_src = EmptyDict
    /\ received = <<>>
    /\ emitted = <<>>
    /\ tmp_dir = EmptyDict
    /\ out_file = Absent
    /\ run = 1
    /\ merges = 0
    /\ OthersIdle

\* line 135: node_info = load_nodes(nodes_file); load_nodes returns for
\* every "nodes" object, and lines 137-141 follow.
LoadNodes ==
    /\ pc = "start"
    /\ pc' = "loop"
    /\ UNCHANGED <<gam_vars, pool_vars, cmp_vars, nodes_file, write_failures, stream, threads, B, source_exit,
                   fed, tasks, running, results, processed_count, batch_index,
                   tmp_dir, out_file, batch_files, error, run, merges,
                   results_src, file_src, received, emitted>>

NextIndex == LoadNodes \/ Next

SpecIndex == InitIndex /\ [][NextIndex]_vars

---------------------------------------------------------------------------
(* The queue-based pipeline of findReads_SegmentID_new.py: the main thread *)
(* parses the lines of `vg view -a` and puts the reads on read_queue;      *)
(* num_threads worker threads get them and record, per region, the reads   *)
(* mapped to one of its segments.  findReads_SegmentID_pb.py has the same  *)
(* workers and the same joins, with the reader in a thread of its own.     *)

MaxGamLines == 3     \* longest stream given to process_gam_file
MaxGamThreads == 2   \* largest num_threads
QueueBound == 1      \* a capacity of the hand-off queue, as the bounded hand-off would have

\* filter_reads is not running.
FilterIdle ==
    /\ StartRun(<<>>, 1, 1)
    /\ nodes_file = NodesFile
    /\ tmp_dir = EmptyDict
    /\ out_file = Absent
    /\ run = 1
    /\ merges = 0

\* The "segments" of the regions of the input JSON file.
RegionSegments == [r \in {"r1", "r2"} |-> IF r = "r1" THEN {"s1", "s2"} ELSE {"s3"}]

\* load_json, lines 12-17: segment id -> region
segment_to_region ==
    [seg \in UNION {RegionSegments[r] : r \in DOMAIN RegionSegments} |->
        CHOOSE r \in DOMAIN RegionSegments : seg \in RegionSegments[r]]

\* One line of the stream: valid = json.loads succeeds; has_sequence = the
\* object carries the key "sequence"; mapping = the node ids of
\* path.mapping.
GamRead(valid, has_sequence, name, mapping) ==
    [valid |-> valid, has_sequence |-> has_sequence, name |-> name,
     sequence |-> <<"A", "C", "G", "T">>, mapping |-> mapping]

ReadP == GamRead(TRUE, TRUE, "P", <<"s9", "s1", "s3">>)
ReadQ == GamRead(TRUE, TRUE, "Q", <<"s9">>)
ReadR == GamRead(TRUE, FALSE, "R", <<"s3">>)
ReadJ == GamRead(FALSE, FALSE, "", <<>>)

GamReads == {ReadP, ReadQ, ReadR, ReadJ}

GamStreams == SeqsUpTo(GamReads, MaxGamLines)

\* The positions of path.mapping whose node id is a known segment.
MatchingAt(read) ==
    {k \in 1..Len(read.mapping) : read.mapping[k] \in DOMAIN segment_to_region}

Min(S) == CHOOSE k \in S : \A j \in S : k <= j

RECURSIVE MatchesFrom(_, _)
MatchesFrom(read, k) ==
    IF k > Len(read.mapping) THEN <<>>
    ELSE IF k \in MatchingAt(read)
    THEN <<read.mapping[k]>> \o MatchesFrom(read, k + 1)
    ELSE MatchesFrom(read, k + 1)

\* Every matching mapping counts: the loop without the break of line 56.
AllMatches(read) == MatchesFrom(read, 1)

\* lines 35-56: the loop over path.mapping stops at the first mapping
\* whose node id is a known segment (break, line 56).
Matches(read) ==
    IF MatchingAt(read) = {} THEN <<>> ELSE <<read.mapping[Min(MatchingAt(read))]>>

\* lines 46-50
GamReadInfo(read) ==
    [read_name |-> read.name, sequence_length |-> Len(read.sequence),
     mapping_position |-> 0]

RECURSIVE AppendReads(_, _, _)
\* line 54, for each matching mapping the loop reaches
AppendReads(aligned, segments, info) ==
    IF segments = <<>> THEN aligned
    ELSE LET region == segment_to_region[Head(segments)]
         IN AppendReads([aligned EXCEPT ![region] = Append(@, info)],
                        Tail(segments), info)

\* read_queue.join() returns at once.
JoinReadyAlways(unfinished) == TRUE

\* line 94: read_queue.join() returns when every item put has been marked
\* done.
JoinReady(unfinished) == unfinished = 0

Waiting == [pc |-> "get", read |-> 0]

InitGam ==
    /\ FilterIdle
    /\ PoolIdle
    /\ CmpIdle
    /\ gam_lines \in GamStreams
    /\ num_threads \in 1..MaxGamThreads
    /\ lines_read = 0
    /\ read_queue = <<>>
    /\ unfinished_tasks = 0
    /\ workers = [w \in 1..num_threads |-> Waiting]
    /\ aligned_reads = [r \in DOMAIN RegionSegments |-> <<>>]
    /\ reads_counted = 0
    /\ gam_pc = "reading"
    /\ taken = <<>>
    /\ classified = <<>>
    /\ append_src = <<>>

\* lines 86-89: the next line parses and the read is put on the queue;
\* queue.Queue() has no maxsize, so put never blocks.
PutRead ==
    /\ gam_pc = "reading"
    /\ lines_read < Len(gam_lines)
    /\ gam_lines[lines_read + 1].valid
    /\ lines_read' = lines_read + 1
    /\ read_queue' = Append(read_queue, lines_read + 1)
    /\ unfinished_tasks' = unfinished_tasks + 1
    /\ UNCHANGED <<filter_vars, pool_vars, cmp_vars, gam_lines, num_threads, workers, aligned_reads,
                   reads_counted, gam_pc, taken, classified, append_src>>

\* lines 90-91: the next line does not parse and is skipped.
SkipLine ==
    /\ gam_pc = "reading"
    /\ lines_read < Len(gam_lines)
    /\ ~gam_lines[lines_read + 1].valid
    /\ lines_read' = lines_read + 1
    /\ UNCHANGED <<filter_vars, pool_vars, cmp_vars, gam_lines, num_threads, read_queue, unfinished_tasks,
                   workers, aligned_reads, reads_counted, gam_pc, taken,
                   classified, append_src>>

\* line 86 ends: the stream is closed; line 94 is reached.
EndOfStream ==
    /\ gam_pc = "reading"
    /\ lines_read = Len(gam_lines)
    /\ gam_pc' = "queue_join"
    /\ UNCHANGED <<filter_vars, pool_vars, cmp_vars, gam_lines, num_threads, lines_read, read_queue,
                   unfinished_tasks, workers, aligned_reads, reads_counted,
                   taken, classified, append_src>>

\* line 94: read_queue.join() returns.
QueueJoin ==
    /\ gam_pc = "queue_join"
    /\ JoinReady(unfinished_tasks)
    /\ gam_pc' = "thread_join"
    /\ UNCHANGED <<filter_vars, pool_vars, cmp_vars, gam_lines, num_threads, lines_read, read_queue,
                   unfinished_tasks, workers, aligned_reads, reads_counted,
                   taken, classified, append_src>>

\* lines 95-96: every worker thread has ended; process_gam_file returns.
ThreadJoin ==
    /\ gam_pc = "thread_join"
    /\ \A w \in DOMAIN workers : workers[w].pc \in {"exited", "raised"}
    /\ gam_pc' = "returned"
    /\ UNCHANGED <<filter_vars, pool_vars, cmp_vars, gam_lines, num_threads, lines_read, read_queue,
                   unfinished_tasks, workers, aligned_reads, reads_counted,
                   taken, classified, append_src>>

\* line 29: get returns the oldest read of the queue.
Get(w) ==
    /\ workers[w].pc = "get"
    /\ read_queue # <<>>
    /\ workers' = [workers EXCEPT ![w] = [pc |-> "classify", read |-> Head(read_queue)]]
    /\ read_queue' = Tail(read_queue)
    /\ taken' = Append(taken, Head(read_queue))
    /\ UNCHANGED <<filter_vars, pool_vars, cmp_vars, gam_lines, num_threads, lines_read, unfinished_tasks,
                   aligned_reads, reads_counted, gam_pc, classified, append_src>>

\* lines 29-31: the queue stayed empty for the 3 seconds of the timeout
\* (the reader is slower than that, or has finished): the worker ends.
GetTimesOut(w) ==
    /\ workers[w].pc = "get"
    /\ read_queue = <<>>
    /\ workers' = [workers EXCEPT ![w] = [pc |-> "exited", read |-> 0]]
    /\ UNCHANGED <<filter_vars, pool_vars, cmp_vars, gam_lines, num_threads, lines_read, read_queue,
                   unfinished_tasks, aligned_reads, reads_counted, gam_pc,
                   taken, classified, append_src>>

\* lines 33-56: the worker classifies its read.  At a matching mapping,
\* len(read["sequence"]) raises KeyError for a read without that key: the
\* thread ends there, before line 66.  Otherwise the entry is appended
\* under the lock.
Classify(w) ==
    LET i == workers[w].read
        read == gam_lines[i]
        segments == Matches(read)
    IN /\ workers[w].pc = "classify"
       /\ IF segments # <<>> /\ ~read.has_sequence
          THEN /\ workers' = [workers EXCEPT ![w].pc = "raised"]
               /\ UNCHANGED <<aligned_reads, classified, append_src>>
          ELSE /\ aligned_reads' = AppendReads(aligned_reads, segments, GamReadInfo(read))
               /\ append_src' = append_src \o [k \in 1..Len(segments) |-> i]
               /\ classified' = Append(classified, i)
               /\ workers' = [workers EXCEPT ![w].pc =
                                 IF segments # <<>> THEN "count" ELSE "task_done"]
       /\ UNCHANGED <<filter_vars, pool_vars, cmp_vars, gam_lines, num_threads, lines_read, read_queue,
                      unfinished_tasks, reads_counted, gam_pc, taken>>

\* lines 59-61: processed_count[0] += 1 under the lock
CountRead(w) ==
    /\ workers[w].pc = "count"
    /\ reads_counted' = reads_counted + 1
    /\ workers' = [workers EXCEPT ![w].pc = "task_done"]
    /\ UNCHANGED <<filter_vars, pool_vars, cmp_vars, gam_lines, num_threads, lines_read, read_queue,
                   unfinished_tasks, aligned_reads, gam_pc, taken, classified,
                   append_src>>

\* line 66: read_queue.task_done(), and back to line 29
TaskDone(w) ==
    /\ workers[w].pc = "task_done"
    /\ unfinished_tasks' = unfinished_tasks - 1
    /\ workers' = [workers EXCEPT ![w] = Waiting]
    /\ UNCHANGED <<filter_vars, pool_vars, cmp_vars, gam_lines, num_threads, lines_read, read_queue,
                   aligned_reads, reads_counted, gam_pc, taken, classified,
                   append_src>>

NextGam ==
    \/ PutRead
    \/ SkipLine
    \/ EndOfStream
    \/ QueueJoin
    \/ ThreadJoin
    \/ \E w \in DOMAIN workers : Get(w)
    \/ \E w \in DOMAIN workers : GetTimesOut(w)
    \/ \E w \in DOMAIN workers : Classify(w)
    \/ \E w \in DOMAIN workers : CountRead(w)
    \/ \E w \in DOMAIN workers : TaskDone(w)

SpecGam == InitGam /\ [][NextGam]_vars

\* The threads run whenever they can: no step that is possible is put off
\* for ever.
SpecGamFair == SpecGam /\ WF_vars(NextGam)

---------------------------------------------------------------------------
(* filter_reads of extract_reads_from_path.py: the threads of a            *)
(* ThreadPoolExecutor run process_read, which stores each read under the   *)
(* nodes it maps to in the shared node_read_map; the main thread counts    *)
(* the results and saves node_read_map every 5000 results and at the end.  *)

MaxPoolLines == 3    \* longest stream given to the thread-based filter_reads
MaxPoolWorkers == 2  \* largest max_workers
MaxSaveEvery == 2    \* largest number of results between two saves

LineD == Line(TRUE, TRUE, "D", <<"n2", "n1">>)

PoolLines == {LineA, LineB, LineD, LineX, LineK}

\* The streams whose lines differ from each other (read names are unique).
PoolStreams ==
    {s \in SeqsUpTo(PoolLines, MaxPoolLines) :
        \A j, k \in 1..Len(s) : j # k => s[j] # s[k]}

\* load_nodes, lines 25-29: id -> sequence and length
ListIndex(ids) == [n \in ids |-> [sequence |-> <<"A", "C">>, length |-> 2]]

\* lines 46-50: the ids of the index that the read maps to, as a set
MappedSet(line, index) ==
    {line.mapping[k] : k \in 1..Len(line.mapping)} \cap DOMAIN index

\* lines 55-61: one round of the loop over mapped_nodes
StoreRead(map, node_id, info, index) ==
    [n \in DOMAIN map \cup {node_id} |->
        IF n = node_id
        THEN LET node == IF node_id \in DOMAIN map THEN map[node_id]
                         ELSE [sequence |-> index[node_id].sequence,
                               length |-> index[node_id].length,
                               reads |-> <<>>]
             IN [node EXCEPT !.reads = Append(@, info)]
        ELSE map[n]]

RECURSIVE StoreAll(_, _, _, _)
\* lines 53-61: the whole loop, under the lock
StoreAll(map, ids, info, index) ==
    IF ids = {} THEN map
    ELSE LET n == CHOOSE x \in ids : TRUE
         IN StoreAll(StoreRead(map, n, info, index), ids \ {n}, info, index)

\* process_read(line, node_info, node_read_map, lock) of
\* extract_reads_from_path.py, run alone: the outcome and node_read_map
\* after the call.
process_read_set(line, index, map) ==
    IF ~line.valid THEN [status |-> "none", map |-> map]
    ELSE IF ~line.has_name THEN [status |-> "KeyError", map |-> map]
    ELSE [status |-> "ok",
          map |-> StoreAll(map, MappedSet(line, index), read_info(line), index)]

\* A lock that is never found taken.
LockFreeAlways(holder) == TRUE

\* threading.Lock: 0 = free, -1 = held by the main thread, w = held by
\* worker w.  `with lock:` is entered when the lock is free.
LockFree(holder) == holder = 0

InitPool ==
    /\ FilterIdle
    /\ GamIdle
    /\ CmpIdle
    /\ pool_lines \in PoolStreams
    /\ max_workers \in 1..MaxPoolWorkers
    /\ save_every \in 1..MaxSaveEvery
    /\ submitted = 0
    /\ next_task = 1
    /\ futures = <<>>
    /\ pool_workers = [w \in 1..max_workers |-> IdleWorker]
    /\ node_read_map = EmptyDict
    /\ lock = 0
    /\ pool_count = 0
    /\ pool_pc = "submit"
    /\ snapshots = <<>>

PoolNodeInfo == ListIndex({"n1", "n2"})

\* line 80: executor.map submits one call of process_read per line of the
\* stream, all of them before it yields the first result.
Submit ==
    /\ pool_pc = "submit"
    /\ submitted < Len(pool_lines)
    /\ submitted' = submitted + 1
    /\ futures' = Append(futures, "pending")
    /\ UNCHANGED <<filter_vars, gam_vars, cmp_vars, pool_lines, max_workers,
                   save_every, next_task, pool_workers, node_read_map, lock,
                   pool_count, pool_pc, snapshots>>

\* line 80: the stream is closed; the loop over the results starts.
Submitted ==
    /\ pool_pc = "submit"
    /\ submitted = Len(pool_lines)
    /\ pool_pc' = "iterate"
    /\ UNCHANGED <<filter_vars, gam_vars, cmp_vars, pool_lines, max_workers,
                   save_every, submitted, next_task, futures, pool_workers,
                   node_read_map, lock, pool_count, snapshots>>

\* A free thread of the executor takes the oldest call not yet started.
StartCall(w) ==
    /\ pool_workers[w].pc = "idle"
    /\ next_task <= submitted
    /\ pool_pc \in {"submit", "iterate", "wait_lock", "saving"}
    /\ pool_workers' = [pool_workers EXCEPT ![w] =
                          [pc |-> "parse", line |-> next_task, todo |-> {}]]
    /\ next_task' = next_task + 1
    /\ UNCHANGED <<filter_vars, gam_vars, cmp_vars, pool_lines, max_workers,
                   save_every, submitted, futures, node_read_map, lock,
                   pool_count, pool_pc, snapshots>>

\* lines 35-50: the line is parsed and the set of its nodes computed.  A
\* line that does not parse ends the call (line 64); a read without "name"
\* ends it with a KeyError, kept in the future.
Parse(w) ==
    LET i == pool_workers[w].line
        line == pool_lines[i]
    IN /\ pool_workers[w].pc = "parse"
       /\ IF ~line.valid
          THEN /\ futures' = [futures EXCEPT ![i] = "done"]
               /\ pool_workers' = [pool_workers EXCEPT ![w] = IdleWorker]
          ELSE IF ~line.has_name
          THEN /\ futures' = [futures EXCEPT ![i] = "KeyError"]
               /\ pool_workers' = [pool_workers EXCEPT ![w] = IdleWorker]
          ELSE /\ pool_workers' = [pool_workers EXCEPT ![w] =
                     [pc |-> "lock", line |-> i, todo |-> MappedSet(line, PoolNodeInfo)]]
               /\ UNCHANGED futures
       /\ UNCHANGED <<filter_vars, gam_vars, cmp_vars, pool_lines, max_workers,
                      save_every, submitted, next_task, node_read_map, lock,
                      pool_count, pool_pc, snapshots>>

\* line 53: the worker enters `with lock:`.
Acquire(w) ==
    /\ pool_workers[w].pc = "lock"
    /\ LockFree(lock)
    /\ lock' = w
    /\ pool_workers' = [pool_workers EXCEPT ![w].pc = "update"]
    /\ UNCHANGED <<filter_vars, gam_vars, cmp_vars, pool_lines, max_workers,
                   save_every, submitted, next_task, futures, node_read_map,
                   pool_count, pool_pc, snapshots>>

\* lines 54-61: one round of the loop over the set, in the set's order.
StoreNode(w) ==
    /\ pool_workers[w].pc = "update"
    /\ \E n \in pool_workers[w].todo :
          /\ node_read_map' = StoreRead(node_read_map, n,
                                        read_info(pool_lines[pool_workers[w].line]),
                                        PoolNodeInfo)
          /\ pool_workers' = [pool_workers EXCEPT ![w].todo = @ \ {n}]
    /\ UNCHANGED <<filter_vars, gam_vars, cmp_vars, pool_lines, max_workers,
                   save_every, submitted, next_task, futures, lock, pool_count,
                   pool_pc, snapshots>>

\* line 61 was the last round: the lock is released and the call returns.
Release(w) ==
    /\ pool_workers[w].pc = "update"
    /\ pool_workers[w].todo = {}
    /\ lock' = 0
    /\ futures' = [futures EXCEPT ![pool_workers[w].line] = "done"]
    /\ pool_workers' = [pool_workers EXCEPT ![w] = IdleWorker]
    /\ UNCHANGED <<filter_vars, gam_vars, cmp_vars, pool_lines, max_workers,
                   save_every, submitted, next_task, node_read_map, pool_count,
                   pool_pc, snapshots>>

\* lines 80-83: executor.map yields the next result, in the order of the
\* lines; the count reaches a multiple of 5000 or not.
NextResult ==
    /\ pool_pc = "iterate"
    /\ pool_count < Len(pool_lines)
    /\ futures[pool_count + 1] = "done"
    /\ pool_count' = pool_count + 1
    /\ pool_pc' = IF (pool_count + 1) % save_every = 0 THEN "wait_lock" ELSE "iterate"
    /\ UNCHANGED <<filter_vars, gam_vars, cmp_vars, pool_lines, max_workers,
                   save_every, submitted, next_task, futures, pool_workers,
                   node_read_map, lock, snapshots>>

\* line 80: the next result is the KeyError of its call; filter_reads does
\* not catch it.
ResultRaises ==
    /\ pool_pc = "iterate"
    /\ pool_count < Len(pool_lines)
    /\ futures[pool_count + 1] = "KeyError"
    /\ pool_pc' = "failed"
    /\ UNCHANGED <<filter_vars, gam_vars, cmp_vars, pool_lines, max_workers,
                   save_every, submitted, next_task, futures, pool_workers,
                   node_read_map, lock, pool_count, snapshots>>

\* line 84: the main thread enters `with lock:` and save_json starts.
SaveStarts ==
    /\ pool_pc = "wait_lock"
    /\ LockFree(lock)
    /\ lock' = -1
    /\ pool_pc' = "saving"
    /\ UNCHANGED <<filter_vars, gam_vars, cmp_vars, pool_lines, max_workers,
                   save_every, submitted, next_task, futures, pool_workers,
                   node_read_map, pool_count, snapshots>>

\* lines 85, 92-98: json.dump and mv have completed; the lock is released.
SaveEnds ==
    /\ pool_pc = "saving"
    /\ snapshots' = Append(snapshots, node_read_map)
    /\ lock' = 0
    /\ pool_pc' = "iterate"
    /\ UNCHANGED <<filter_vars, gam_vars, cmp_vars, pool_lines, max_workers,
                   save_every, submitted, next_task, futures, pool_workers,
                   node_read_map, pool_count>>

\* lines 79-88: the loop has ended, the executor has shut down (every call
\* has returned), and the final save runs without the lock.
LastSave ==
    /\ pool_pc = "iterate"
    /\ pool_count = Len(pool_lines)
    /\ \A w \in DOMAIN pool_workers : pool_workers[w].pc = "idle"
    /\ snapshots' = Append(snapshots, node_read_map)
    /\ pool_pc' = "done"
    /\ UNCHANGED <<filter_vars, gam_vars, cmp_vars, pool_lines, max_workers,
                   save_every, submitted, next_task, futures, pool_workers,
                   node_read_map, lock, pool_count>>

NextPool ==
    \/ Submit
    \/ Submitted
    \/ NextResult
    \/ ResultRaises
    \/ SaveStarts
    \/ SaveEnds
    \/ LastSave
    \/ \E w \in DOMAIN pool_workers : StartCall(w)
    \/ \E w \in DOMAIN pool_workers : Parse(w)
    \/ \E w \in DOMAIN pool_workers : Acquire(w)
    \/ \E w \in DOMAIN pool_workers : StoreNode(w)
    \/ \E w \in DOMAIN pool_workers : Release(w)

SpecPool == InitPool /\ [][NextPool]_vars

---------------------------------------------------------------------------
(* The two process_read functions, each called alone on one line with the  *)
(* index of the same node ids.                                             *)

MaxMappings == 3     \* longest path.mapping of a line given to both functions

MappingLines ==
    {Line(TRUE, TRUE, "M", m) : m \in SeqsUpTo({"n1", "n2", "n9"}, MaxMappings)}
        \cup {LineX, LineK}

\* The index of extract_reads_from_path_GFA.py over the given ids
DictIndex(ids) == [n \in ids |-> Metadata(<<"A", "C">>)]

InitCmp ==
    /\ FilterIdle
    /\ GamIdle
    /\ PoolIdle
    /\ cmp_line \in MappingLines
    /\ cmp_index \in SUBSET {"n1", "n2"}
    /\ dict_result = [status |-> "idle", mapped |-> EmptyDict]
    /\ set_result = [status |-> "idle", map |-> EmptyDict]

\* process_read of extract_reads_from_path_GFA.py is called.
CallDict ==
    /\ dict_result.status = "idle"
    /\ dict_result' = process_read(cmp_line, DictIndex(cmp_index))
    /\ UNCHANGED <<filter_vars, gam_vars, pool_vars, cmp_line, cmp_index, set_result>>

\* process_read of extract_reads_from_path.py is called on an empty
\* node_read_map.
CallSet ==
    /\ set_result.status = "idle"
    /\ set_result' = process_read_set(cmp_line, ListIndex(cmp_index), EmptyDict)
    /\ UNCHANGED <<filter_vars, gam_vars, pool_vars, cmp_line, cmp_index, dict_result>>

NextCmp == CallDict \/ CallSet

SpecCmp == InitCmp /\ [][NextCmp]_vars

---------------------------------------------------------------------------
(* Properties *)

\* merge_json_files has been reached by the run in progress.
MergeStarted == pc \in {"merge", "done"} \/ (pc = "failed" /\ error = "AttributeError")

\* merge_json_files has returned or raised in the run in progress.
MergeEnded == pc = "done" \/ (pc = "failed" /\ error = "AttributeError")

\* The places (batch file, position) where this run saved the result of line i.
SavedAt(i) ==
    {fk \in UNION {{<<f, k>> : k \in 1..Len(file_src[f])} : f \in DOMAIN file_src} :
        file_src[fk[1]][fk[2]] = i}

\* The results list that holds the classification of the given lines.
ResultsOf(srcs) ==
    [k \in 1..Len(srcs) |-> process_read(stream[srcs[k]], node_info).mapped]

\* C1: once merging starts, every non-empty classification result received
\* from the pool is held by exactly one batch file written by the run (a
\* numbered batch or the final batch), at exactly one position, and each of
\* those files holds the results of the lines recorded for it.
C1_EveryResultSavedOnce ==
    MergeStarted =>
        /\ \A n \in 1..Len(received) : Cardinality(SavedAt(received[n])) = 1
        /\ \A f \in DOMAIN file_src :
              /\ f \in DOMAIN tmp_dir
              /\ tmp_dir[f] = JsonList(ResultsOf(file_src[f]))

\* C1 witness: three results received out of stream order, saved in a
\* numbered batch and in the final batch.
C1_Witness ==
    /\ MergeStarted
    /\ Len(received) = 3
    /\ received[1] > received[2]
    /\ Len(emitted) = 2
    /\ emitted[2] = FinalFile
    /\ file_src[FinalFile] # <<>>

\* Every reads list of a classification result has at most one entry.
SingleEntries(mapped_nodes) ==
    \A n \in DOMAIN mapped_nodes : Len(mapped_nodes[n].reads) <= 1

\* C2: one alignment record contributes at most one read entry to each
\* node's reads list: in every classification result held in results or
\* saved in a batch file, each node's reads list has at most one entry.
C2_AtMostOneEntryPerNode ==
    /\ \A k \in 1..Len(results) : SingleEntries(results[k])
    /\ \A f \in DOMAIN tmp_dir :
          \A k \in 1..Len(tmp_dir[f].items) : SingleEntries(tmp_dir[f].items[k])

\* The (read name, node id) pairs of a dict keyed by node id.
Pairs(map) ==
    UNION {{<<map[n].reads[k].read_name, n>> : k \in 1..Len(map[n].reads)} :
             n \in DOMAIN map}

\* The pairs of the single-threaded reference: every record that decodes is
\* classified, and grouped under each node of the index it maps to.
RefPairs(lines) ==
    UNION {{<<lines[i].name, lines[i].mapping[k]>> :
               k \in {j \in 1..Len(lines[i].mapping) :
                        lines[i].mapping[j] \in DOMAIN node_info}} :
             i \in {j \in 1..Len(lines) : lines[j].valid /\ lines[j].has_name}}

\* C3: when merge_json_files has ended, the output file is a dict whose
\* (read name, node id) pairs are those of the single-threaded reference.
C3_OutputPairsEqualReference ==
    MergeEnded =>
        /\ out_file.kind = "dict"
        /\ Pairs(out_file.map) = RefPairs(stream)

RECURSIVE Count(_, _)
\* How many entries of a reads list carry the read name.
Count(reads, name) ==
    IF reads = <<>> THEN 0
    ELSE (IF Head(reads).read_name = name THEN 1 ELSE 0) + Count(Tail(reads), name)

RECURSIVE InOrder(_, _)
\* The grouping a single worker yields: the results of the lines in stream
\* order, merged node by node.
InOrder(lines, merged_data) ==
    IF lines = <<>> THEN merged_data
    ELSE LET r == process_read(Head(lines), node_info)
         IN InOrder(Tail(lines),
                    IF r.status = "ok"
                    THEN MergeItems(merged_data, r.mapped, DOMAIN r.mapped)
                    ELSE merged_data)

ReadNames == {l.name : l \in Lines}

\* C4: for each worker count and each order of completion, the output has,
\* per node, the multiset of read names that one worker taking the lines in
\* stream order yields.
C4_OutputIndependentOfWorkers ==
    MergeEnded =>
        /\ out_file.kind = "dict"
        /\ DOMAIN out_file.map = DOMAIN InOrder(stream, EmptyDict)
        /\ \A n \in DOMAIN out_file.map : \A name \in ReadNames :
              Count(out_file.map[n].reads, name)
                  = Count(InOrder(stream, EmptyDict)[n].reads, name)

\* C5: every batch file is a dict keyed by node id, and merge_json_files
\* never ends a run with an error.
C5_CheckpointsAreNodeDicts ==
    /\ \A f \in DOMAIN tmp_dir : tmp_dir[f].kind = "dict"
    /\ ~(pc = "failed" /\ error = "AttributeError")

\* All reads of a dict keyed by node id, counted with repetition.
TotalReads(map) ==
    LET RECURSIVE Sum(_)
        Sum(S) == IF S = {} THEN 0
                  ELSE LET n == CHOOSE x \in S : TRUE
                       IN Len(map[n].reads) + Sum(S \ {n})
    IN Sum(DOMAIN map)

\* C6: with B = 3 and 7 records in sequence that each map to one node of
\* the index, the run writes three batch files holding 3, 3 and 1 results
\* and the merged output holds all 7 records.
C6_ThresholdBoundary ==
    (/\ MergeEnded
     /\ B = 3
     /\ threads = 1
     /\ stream = [i \in 1..7 |-> LineB])
    => /\ emitted = <<BatchFile(1), BatchFile(2), FinalFile>>
       /\ Len(tmp_dir[BatchFile(1)].items) = 3
       /\ Len(tmp_dir[BatchFile(2)].items) = 3
       /\ Len(tmp_dir[FinalFile].items) = 1
       /\ out_file.kind = "dict"
       /\ TotalReads(out_file.map) = 7

\* C7: the numbered batch files are written as 1, 2, 3, ... with the final
\* batch last, and merge_json_files takes the batch files in that order.
C7_MergedInEmissionOrder ==
    /\ \A k \in 1..Len(emitted) :
          emitted[k] = BatchFile(k) \/ (k = Len(emitted) /\ emitted[k] = FinalFile)
    /\ MergeEnded => batch_files = emitted

\* C8: a second call of merge_json_files over the same batch files leaves
\* the output file as the first call left it and ends as the first call
\* ended; over no batch files the call writes an empty dict without error.
C8_MergeIdempotent ==
    /\ [][(merges >= 1 /\ merges' = merges + 1) =>
             (out_file' = out_file /\ pc' = pc /\ error' = error)]_vars
    /\ []((merges >= 1 /\ tmp_dir = EmptyDict) =>
             (pc = "done" /\ out_file = JsonDict(EmptyDict)))

\* C8 witness: two calls have merged two batch files that share a node, over
\* an output file that existed before.
C8_Witness ==
    /\ merges = 2
    /\ pc = "done"
    /\ Len(batch_files) = 2
    /\ \E n \in DOMAIN out_file.map : Len(out_file.map[n].reads) >= 2

\* C9: the merge of a run takes exactly the batch files that run wrote, a
\* run that ends well leaves no batch file behind, and its output holds
\* only reads of its own stream.
C9_MergerConsumesOwnCheckpoints ==
    MergeEnded =>
        /\ {batch_files[k] : k \in 1..Len(batch_files)}
             = {emitted[k] : k \in 1..Len(emitted)}
        /\ pc = "done" =>
              /\ tmp_dir = EmptyDict
              /\ Pairs(out_file.map) \subseteq RefPairs(stream)

\* C10: after the vg process has exited with a non-zero code the run does
\* not end well and no output file is written.
C10_SourceFailureFailsRun ==
    (source_exit # 0 /\ error \notin StopCauses) => (pc # "done" /\ out_file = Absent)

\* The lines whose result the loop of filter_reads has consumed.
Consumed == {i \in 1..fed : i \notin running /\ \A k \in 1..Len(tasks) : tasks[k] # i}

\* C11: a line that fails to decode (unparsable, or without a read name)
\* never ends the run, is not counted and is not kept; and the output of a
\* run that reached the end of the merge holds every pair of the records
\* that decode.
C11_DecodeFailureSkipped ==
    /\ error # "KeyError"
    /\ processed_count = Len(received)
    /\ \A n \in 1..Len(received) :
          stream[received[n]].valid /\ stream[received[n]].has_name
    /\ MergeEnded =>
          /\ out_file.kind = "dict"
          /\ RefPairs(stream) \subseteq Pairs(out_file.map)

\* C12: a run ends with a write error only after a failed write has been
\* tried again at least once.
C12_WriteRetried ==
    error = "OSError" => write_failures >= 2

\* The node ids that key a JSON document: the keys of a dict and the keys
\* of every entry of a list.
KeysOf(doc) ==
    DOMAIN doc.map \cup UNION {DOMAIN doc.items[k] : k \in 1..Len(doc.items)}

\* C13: every node id that keys an entry of results, of a batch file or of
\* the output file is in the node index, and no received result comes from
\* a record whose mappings all name ids absent from the index.
C13_KeysInNodeIndex ==
    /\ \A k \in 1..Len(results) : DOMAIN results[k] \subseteq DOMAIN node_info
    /\ \A f \in DOMAIN tmp_dir : KeysOf(tmp_dir[f]) \subseteq DOMAIN node_info
    /\ KeysOf(out_file) \subseteq DOMAIN node_info
    /\ \A n \in 1..Len(received) :
          \E k \in 1..Len(stream[received[n]].mapping) :
              stream[received[n]].mapping[k] \in DOMAIN node_info

\* C13 witness: a record that maps only to an absent id has been consumed,
\* and a batch file holds a result keyed by both nodes of the index.
C13_Witness ==
    /\ \E i \in Consumed : stream[i] = LineC
    /\ \E f \in Glob(tmp_dir) : KeysOf(tmp_dir[f]) = DOMAIN node_info
    /\ pc = "merge"

\* Two entries of a nodes file with the same id and different metadata.
Conflicting(pairs) ==
    \E j, k \in 1..Len(pairs) : pairs[j][1] = pairs[k][1] /\ pairs[j][2] # pairs[k][2]

\* C14: filter_reads gets past load_nodes only with a nodes file that is
\* not empty and has no id with conflicting metadata, and the index then
\* holds each id once, with the metadata of its entries.
C14_IndexValidated ==
    pc # "start" =>
        /\ nodes_file # <<>>
        /\ ~Conflicting(nodes_file)
        /\ \A k \in 1..Len(nodes_file) :
              load_nodes(nodes_file)[nodes_file[k][1]] = nodes_file[k][2]

\* C15: every file of tmp that the merge's pattern matches is a complete
\* JSON document, also after a save has been stopped midway.
C15_CheckpointsComplete ==
    \A f \in Glob(tmp_dir) : tmp_dir[f].kind \in {"list", "dict"}

\* C15 witness: the process ended during a save, leaving a partly written
\* temporary file beside a batch file saved before.
C15_Witness ==
    /\ error = "SIGKILL"
    /\ \E f \in DOMAIN tmp_dir : f \notin Glob(tmp_dir) /\ tmp_dir[f].kind = "partial"
    /\ \E f \in Glob(tmp_dir) : tmp_dir[f].items # <<>>

\* C16: the output file is never a partly written document.
C16_OutputWrittenAtomically ==
    out_file.kind # "partial"

SummaryFields == {"read_name", "sequence", "mapping_quality", "score", "quality"}

\* The read entries of one classification result.
EntriesOf(mapped_nodes) ==
    UNION {{mapped_nodes[n].reads[k] : k \in 1..Len(mapped_nodes[n].reads)} :
             n \in DOMAIN mapped_nodes}

\* C17: every read entry held in results or saved in a batch file has the
\* fields name, sequence, mapping quality, score and quality, and no other.
C17_ReadsAreReducedProjection ==
    /\ \A k \in 1..Len(results) :
          \A r \in EntriesOf(results[k]) : DOMAIN r = SummaryFields
    /\ \A f \in DOMAIN tmp_dir : \A k \in 1..Len(tmp_dir[f].items) :
          \A r \in EntriesOf(tmp_dir[f].items[k]) : DOMAIN r = SummaryFields

\* C18: every numbered batch written holds the results of exactly B
\* records (the counter advanced by B since the flush before), and the
\* final batch is not empty.
C18_FlushOncePerCrossing ==
    \A f \in DOMAIN file_src :
        IF f = FinalFile THEN file_src[f] # <<>> ELSE Len(file_src[f]) = B

\* C19: the flushes of one run, the final one included, write to names that
\* differ from each other, and a batch file the run has written is not
\* changed or removed by any later step of that run.
C19_CheckpointNamesUnique ==
    /\ [](\A j, k \in 1..Len(emitted) : j # k => emitted[j] # emitted[k])
    /\ [][run' = run =>
            \A k \in 1..Len(emitted) :
                /\ emitted[k] \in DOMAIN tmp_dir'
                /\ tmp_dir'[emitted[k]] = tmp_dir[emitted[k]]]_vars

\* C19 witness: two numbered batches and the final batch have been written.
C19_Witness ==
    /\ Len(emitted) = 3
    /\ emitted[3] = FinalFile
    /\ pc = "merge"

\* C20: results never holds more than B entries, and while the run goes on
\* it holds the results counted since the last multiple of B.
C20_ResultsBounded ==
    /\ Len(results) <= B
    /\ pc # "failed" => Len(results) = processed_count % B

\* C20 witness: with B = 2, a third result is held after a flush of two.
C20_Witness ==
    /\ B = 2
    /\ processed_count = 3
    /\ Len(results) = 1
    /\ Len(emitted) = 1

\* C21: once the stream is exhausted, every result consumed and the merge
\* reached, a non-empty results list has been saved as the final batch,
\* once and as the last file written, and an empty results list has left
\* no final batch written by the run.
C21_FinalFlushBeforeMerge ==
    MergeStarted =>
        IF results # <<>>
        THEN /\ emitted # <<>>
             /\ emitted[Len(emitted)] = FinalFile
             /\ FinalFile \in DOMAIN tmp_dir
             /\ tmp_dir[FinalFile] = JsonList(results)
             /\ file_src[FinalFile] = results_src
        ELSE \A k \in 1..Len(emitted) : emitted[k] # FinalFile

\* C21 witness: the merge is about to run after a numbered batch and a
\* final batch holding the one remaining result.
C21_Witness ==
    /\ pc = "merge"
    /\ Len(results) = 1
    /\ Len(emitted) = 2
    /\ emitted[2] = FinalFile

\* The workers that hold a read they have got and not yet marked done.
Busy == {w \in DOMAIN workers : workers[w].pc \in {"classify", "count", "task_done"}}

\* The number of times x occurs in the sequence s.
Occurrences(s, x) == Cardinality({k \in 1..Len(s) : s[k] = x})

\* Every worker thread has ended.
WorkersEnded == \A w \in DOMAIN workers : workers[w].pc \in {"exited", "raised"}

\* C22: the reads put on the queue and not yet classified never number
\* more than the capacity of the queue plus the number of workers.
C22_HandOffBounded ==
    Len(read_queue) + Cardinality({w \in DOMAIN workers : workers[w].pc = "classify"})
        <= QueueBound + num_threads

\* C24: on a stream none of whose reads makes a worker raise,
\* process_gam_file eventually returns.
C24_ProcessGamFileReturns ==
    (\A i \in 1..Len(gam_lines) : gam_lines[i] # ReadR) => <>(gam_pc = "returned")

\* C26: every read put on the queue is still on it, is held by a worker
\* that is running, or has been marked done: no worker has ended with a
\* read it did not mark done.
C26_WorkerErrorDoesNotStop ==
    unfinished_tasks = Len(read_queue) + Cardinality(Busy)

\* C27: no read is ever got twice, and when process_gam_file has returned
\* the queue is empty and every read that was put has been got once and
\* classified once.
C27_EveryReadClassifiedOnce ==
    /\ \A i \in 1..Len(gam_lines) : Occurrences(taken, i) <= 1
    /\ gam_pc = "returned" =>
          /\ read_queue = <<>>
          /\ lines_read = Len(gam_lines)
          /\ \A i \in 1..Len(gam_lines) :
                gam_lines[i].valid =>
                    Occurrences(taken, i) = 1 /\ Occurrences(classified, i) = 1

\* C27 witness: process_gam_file has returned after two workers got the
\* three reads of the stream.
C27_Witness ==
    /\ gam_pc = "returned"
    /\ num_threads = 2
    /\ Len(taken) = 3
    /\ Len(append_src) = 2

\* The region of the first mapping of read i to a known segment.
FirstRegion(i) == segment_to_region[gam_lines[i].mapping[Min(MatchingAt(gam_lines[i]))]]

\* C28: every read has at most one entry over the aligned_reads lists of
\* all regions, in the region of its first mapping to a known segment, and
\* once every worker has ended processed_count[0] is the number of entries
\* appended.
C28_OneEntryPerRead ==
    /\ \A i \in 1..Len(gam_lines) : Occurrences(append_src, i) <= 1
    /\ \A r \in DOMAIN aligned_reads :
          Len(aligned_reads[r]) =
              Cardinality({k \in 1..Len(append_src) : FirstRegion(append_src[k]) = r})
    /\ WorkersEnded => reads_counted = Len(append_src)

\* C28 witness: two workers have ended after appending the entries of two
\* reads that each map to segments of both regions.
C28_Witness ==
    /\ WorkersEnded
    /\ num_threads = 2
    /\ reads_counted = 2
    /\ Len(aligned_reads["r1"]) = 2
    /\ \A k \in 1..Len(append_src) : gam_lines[append_src[k]] = ReadP

\* C23: no save is in progress while the lock is held, and no worker waits
\* for the lock while the main thread is saving.
C23_LockOnlyForUpdate ==
    /\ pool_pc = "saving" => lock # -1
    /\ \A w \in DOMAIN pool_workers :
          ~(pool_workers[w].pc = "lock" /\ pool_pc = "saving")

\* The read of line i of the stream has an entry under node n of the map.
Present(map, i, n) ==
    /\ n \in DOMAIN map
    /\ \E k \in 1..Len(map[n].reads) : map[n].reads[k].read_name = pool_lines[i].name

IsPrefix(s, t) == Len(s) <= Len(t) /\ \A k \in 1..Len(s) : s[k] = t[k]

\* A saved map holds each read under all the index nodes it maps to or
\* under none of them.
RecordConsistent(map) ==
    \A i \in 1..Len(pool_lines) :
        pool_lines[i].valid /\ pool_lines[i].has_name =>
            LET ids == {pool_lines[i].mapping[k] : k \in 1..Len(pool_lines[i].mapping)}
                           \cap {"n1", "n2"}
            IN \/ \A n \in ids : Present(map, i, n)
               \/ \A n \in ids : ~Present(map, i, n)

\* C29: every map that filter_reads saved is record-consistent, and each
\* saved map contains every entry of the maps saved before it.
C29_SnapshotsRecordConsistent ==
    /\ \A k \in 1..Len(snapshots) : RecordConsistent(snapshots[k])
    /\ \A j, k \in 1..Len(snapshots) :
          j < k => \A n \in DOMAIN snapshots[j] :
                      /\ n \in DOMAIN snapshots[k]
                      /\ IsPrefix(snapshots[j][n].reads, snapshots[k][n].reads)

\* C29 witness: with two workers, a periodic save was taken while a read
\* that maps to two nodes was not yet stored, and a later save holds it
\* under both.
C29_Witness ==
    /\ max_workers = 2
    /\ Len(snapshots) >= 2
    /\ \E i \in 1..Len(pool_lines) :
          /\ pool_lines[i] \in {LineA, LineD}
          /\ ~Present(snapshots[1], i, "n1") /\ ~Present(snapshots[1], i, "n2")
          /\ Present(snapshots[2], i, "n1") /\ Present(snapshots[2], i, "n2")
    /\ snapshots[1] # EmptyDict

\* C30: when both functions have been called on the same line with an
\* index of the same ids, both returned or raised alike, and they put the
\* read under the same node ids with the same number of entries per node.
C30_ClassifiersAgree ==
    dict_result.status # "idle" /\ set_result.status # "idle" =>
        /\ dict_result.status = set_result.status
        /\ DOMAIN dict_result.mapped = DOMAIN set_result.map
        /\ \A n \in DOMAIN dict_result.mapped :
              Len(dict_result.mapped[n].reads) = Len(set_result.map[n].reads)

\* What the record of a line and the index determine: per node of the
\* index that the line maps to, the node's metadata and one entry of the
\* read for each of its mappings to the node.
Determined(line, index) ==
    LET ids == {line.mapping[k] : k \in 1..Len(line.mapping)} \cap DOMAIN index
    IN [n \in ids |->
          [strand |-> index[n].strand, sequence |-> index[n].sequence,
           length |-> index[n].length, start_offset |-> index[n].start_offset,
           reads |-> [k \in 1..Cardinality({j \in 1..Len(line.mapping) : line.mapping[j] = n})
                        |-> read_info(line)]]]

\* C25: the node index stays as it was loaded, every result held in
\* results or saved in a batch file is what its own record and the index
\* determine, whatever other records were classified before it or at the
\* same time, and while the run goes on the results received are those of
\* the consumed records that map to the index.
C25_ClassifierPure ==
    /\ load_nodes(nodes_file) = node_info
    /\ \A k \in 1..Len(results) :
          results[k] = Determined(stream[results_src[k]], node_info)
    /\ \A f \in DOMAIN file_src :
          f \in DOMAIN tmp_dir =>
              \A k \in 1..Len(file_src[f]) :
                  tmp_dir[f].items[k] = Determined(stream[file_src[f][k]], node_info)
    /\ pc = "loop" =>
          \A i \in Consumed :
              (\E n \in 1..Len(received) : received[n] = i)
                  <=> /\ stream[i].valid
                      /\ stream[i].has_name
                      /\ Determined(stream[i], node_info) # EmptyDict

\* C25 witness: two workers classified two records at the same time, and
\* the result of the second line was received first.
C25_Witness ==
    /\ threads >= 2
    /\ Len(results) = 2
    /\ results_src = <<2, 1>>
    /\ stream[1] = LineB
    /\ stream[2] = LineA

====
